---- MODULE Spec2Model ----
(***************************************************************************)
(* shipping-service: the shipment store, the HTTP create/cancel routes,    *)
(* the dispatch-command consumer with its fulfillment reply, and the       *)
(* analytics notification publisher (MQTT and Kafka builds).               *)
(*                                                                         *)
(* Strings on which the code works character by character (shipment ids,   *)
(* tracking numbers, order ids) are tuples of one-character strings; the   *)
(* other strings are atomic.                                               *)
(***************************************************************************)
EXTENDS Integers, Sequences, FiniteSets, TLC

VARIABLES
  shipments,      \* the Map `shipments`, as its entries in insertion order
  uuidSeed,       \* where the stream of randomUUID() values starts
  drawn,          \* how many values randomUUID() has returned so far
  now,            \* the wall clock read by new Date()
  startPc,        \* position of startDispatchCommandConsumer()
  kafkaConnected, \* the flag `kafkaConnected`
  consumerPc,     \* position of the eachMessage handler: "idle" | "awaitSend"
  handled,        \* one entry per eachMessage invocation, in order: what was
                  \* delivered and what the handler did with it
  sends,          \* every fulfillmentProducer.send() of a reply, in call order
  raised,         \* errors with which eachMessage invocations rejected
  notifyVia,      \* which build runs: notification over "mqtt" or "kafka"
  attempts,       \* one entry per publishAnalyticsNotification() call
  responses,      \* the HTTP responses written so far, in order
  lifecycle       \* the two Kafka clients' connections, the signals received,
                  \* the shutdown() calls and whether the process has exited

vars == <<shipments, uuidSeed, drawn, now, startPc, kafkaConnected, consumerPc,
          handled, sends, raised, notifyVia, attempts, responses, lifecycle>>

(***************************************************************************)
(* Bounds of the model.                                                    *)
(***************************************************************************)
MaxUuids == 7
MaxDeliveries == 2
MaxRequests == 1
MaxClock == 1
MaxCalls == 2
MaxListCalls == 4

(***************************************************************************)
(* Characters and strings.                                                 *)
(***************************************************************************)
HexDigit == <<"0", "1", "2", "3", "4", "5", "6", "7",
              "8", "9", "a", "b", "c", "d", "e", "f">>

Lower == <<"a", "b", "c", "d", "e", "f", "g", "h", "i", "j", "k", "l", "m",
           "n", "o", "p", "q", "r", "s", "t", "u", "v", "w", "x", "y", "z">>

Upper == <<"A", "B", "C", "D", "E", "F", "G", "H", "I", "J", "K", "L", "M",
           "N", "O", "P", "Q", "R", "S", "T", "U", "V", "W", "X", "Y", "Z">>

\* String.prototype.toUpperCase on one character
UpperChar(c) ==
  IF \E i \in DOMAIN Lower : Lower[i] = c
    THEN Upper[CHOOSE i \in DOMAIN Lower : Lower[i] = c]
    ELSE c

toUpperCase(s) == [i \in DOMAIN s |-> UpperChar(s[i])]

\* s.replace(/-/g, '')
RECURSIVE RemoveDashes(_)
RemoveDashes(s) ==
  IF s = <<>> THEN <<>>
  ELSE IF Head(s) = "-" THEN RemoveDashes(Tail(s))
  ELSE <<Head(s)>> \o RemoveDashes(Tail(s))

\* s.slice(0, n)
SliceFrom0(s, n) == SubSeq(s, 1, IF Len(s) < n THEN Len(s) ELSE n)

TrackingLen == 12

makeTrackingNumber(shipmentId) ==
  <<"T", "R", "K", "-">>
    \o toUpperCase(SliceFrom0(RemoveDashes(shipmentId), TrackingLen))

(***************************************************************************)
(* randomUUID(): version-4 UUIDs in their 36-character text form.  The     *)
(* calls return the values of a stream of pairwise different UUIDs; where  *)
(* the stream starts is chosen when the process starts, and the model      *)
(* follows it for MaxUuids calls.                                          *)
(***************************************************************************)
MkUuid(i) ==
  [p \in 1..36 |->
     IF p \in {9, 14, 19, 24} THEN "-"
     ELSE IF p = 15 THEN "4"
     ELSE IF p = 20 THEN "a"
     ELSE HexDigit[((7 * i + 3 * p) % 16) + 1]]

UuidSeeds == {0, 7}

\* a generator that restarts with every handler: its values repeat
repeatedUUID(k) == MkUuid(uuidSeed + k)

\* the k-th randomUUID() call from the current state on
randomUUID(k) == MkUuid(uuidSeed + drawn + k)

\* the handler's calls stay within the modelled stream
CanDraw(n) == drawn + n <= MaxUuids

(***************************************************************************)
(* The Map `shipments`: set() overwrites in place or appends, get()        *)
(* returns the entry for the key, values() iterates in insertion order.    *)
(***************************************************************************)
MapHas(map, key) == \E i \in DOMAIN map : map[i].shipmentId = key

MapGet(map, key) == map[CHOOSE i \in DOMAIN map : map[i].shipmentId = key]

\* a set() that leaves an entry that is already there as it is
MapSetIfAbsent(map, key, value) ==
  IF MapHas(map, key) THEN map ELSE Append(map, value)

\* a set() that takes the entry out and adds it again at the end
MapSetMovesToEnd(map, key, value) ==
  Append(SelectSeq(map, LAMBDA r : r.shipmentId # key), value)

MapSet(map, key, value) ==
  IF MapHas(map, key)
    THEN [i \in DOMAIN map |-> IF map[i].shipmentId = key THEN value ELSE map[i]]
    ELSE Append(map, value)

MapKeys(map) == {map[i].shipmentId : i \in DOMAIN map}

(***************************************************************************)
(* Time.  new Date().toISOString() of the instant t is written Iso(t);     *)
(* Date.parse is given on the requestedAt texts the model delivers.        *)
(***************************************************************************)
Iso(t) == <<"iso", t>>

ValidRequestedAt == "2024-01-01T00:00:00Z"

\* Number.isNaN(Date.parse(text))
DateParseIsNaN(text) == text # ValidRequestedAt

(***************************************************************************)
(* Inbound Kafka messages.  message.value is null or a Buffer; the text    *)
(* of a Buffer is empty, not JSON, or the JSON text of a document.         *)
(* A JSON document is a record tagged by its type.                         *)
(***************************************************************************)
OrderO1 == <<"o", "-", "1">>
OrderO2 == <<"o", "-", "2">>

JStr(v) == [t |-> "string", v |-> v]
JNum(v) == [t |-> "number", v |-> v]
JNull == [t |-> "null"]
JArr(v) == [t |-> "array", v |-> v]
JObj(v) == [t |-> "object", v |-> v]

CommandFields == {"messageId", "requestId", "orderId", "carrier", "requestedAt"}

\* the JSON object a well-formed DispatchCommandEvent is sent as
CommandDoc(c) ==
  JObj([f \in CommandFields |-> JStr(c[f])])

\* the commands the model delivers: two that are accepted, with and without a
\* carrier, and two whose requestedAt is no timestamp
Commands ==
  {[messageId |-> "m1", requestId |-> "r1", orderId |-> OrderO1,
    carrier |-> "UPS", requestedAt |-> ValidRequestedAt],
   [messageId |-> "m2", requestId |-> "r2", orderId |-> OrderO2,
    carrier |-> "", requestedAt |-> ValidRequestedAt],
   [messageId |-> "m3", requestId |-> "r3", orderId |-> OrderO2,
    carrier |-> "", requestedAt |-> "not-a-date"],
   [messageId |-> "m4", requestId |-> "r4", orderId |-> OrderO1,
    carrier |-> "UPS", requestedAt |-> ""]}

SampleCommand ==
  [messageId |-> "m1", requestId |-> "r1", orderId |-> OrderO1,
   carrier |-> "UPS", requestedAt |-> ValidRequestedAt]

\* a command object with one field left out
WithoutField(c, f) ==
  JObj([g \in CommandFields \ {f} |-> JStr(c[g])])

\* a command object with one field holding a number
WithNumberField(c, f) ==
  JObj([g \in CommandFields |-> IF g = f THEN JNum(7) ELSE JStr(c[g])])

MalformedDocs ==
  {JNull, JNum(0), JNum(5), JStr(<<>>), JStr(OrderO1),
   JArr(<<>>), JArr(<<CommandDoc(SampleCommand)>>), JObj(<<>>)}
    \cup {WithoutField(SampleCommand, f) : f \in CommandFields}
    \cup {WithNumberField(SampleCommand, f) : f \in CommandFields}

NullValue == [kind |-> "null"]
EmptyBuffer == [kind |-> "buffer", syntax |-> "empty"]
GarbageBuffer == [kind |-> "buffer", syntax |-> "garbage"]
JsonBuffer(doc) == [kind |-> "buffer", syntax |-> "json", doc |-> doc]

MalformedMessages ==
  {NullValue, EmptyBuffer, GarbageBuffer} \cup {JsonBuffer(d) : d \in MalformedDocs}

CommandMessages == {JsonBuffer(CommandDoc(c)) : c \in Commands}

Messages == MalformedMessages \cup CommandMessages

\* JSON.parse(text): the document, or a SyntaxError
JSONParse(value) ==
  IF value.syntax = "json"
    THEN [ok |-> TRUE, doc |-> value.doc]
    ELSE [ok |-> FALSE]

\* JavaScript's !value
Falsy(doc) ==
  \/ doc.t = "null"
  \/ doc.t = "number" /\ doc.v = 0
  \/ doc.t = "string" /\ doc.v = <<>>
  \/ doc.t = "boolean" /\ doc.v = FALSE

\* typeof payload[f] === 'string'
HasStringField(doc, f) == f \in DOMAIN doc.v /\ doc.v[f].t = "string"

\* isDispatchCommandEvent without the test of messageId
isDispatchCommandEventNoMessageId(doc) ==
  IF Falsy(doc) \/ doc.t \notin {"object", "array"} \/ doc.t = "array"
    THEN FALSE
    ELSE /\ HasStringField(doc, "requestId")
         /\ HasStringField(doc, "orderId")
         /\ HasStringField(doc, "carrier")
         /\ HasStringField(doc, "requestedAt")

isDispatchCommandEvent(doc) ==
  IF Falsy(doc) \/ doc.t \notin {"object", "array"} \/ doc.t = "array"
    THEN FALSE
    ELSE /\ HasStringField(doc, "messageId")
         /\ HasStringField(doc, "requestId")
         /\ HasStringField(doc, "orderId")
         /\ HasStringField(doc, "carrier")
         /\ HasStringField(doc, "requestedAt")

\* the payload read as a DispatchCommandEvent: the string fields it holds
\* (a field the payload lacks reads as undefined)
Undefined == [t |-> "undefined"]

AsCommand(doc) ==
  [f \in CommandFields |->
     IF f \in DOMAIN doc.v /\ doc.v[f].t = "string" THEN doc.v[f].v ELSE Undefined]

(***************************************************************************)
(* The dispatch-command consumer.                                          *)
(***************************************************************************)
fulfillmentReplyTopic == "queue.order.fulfillment.reply"

DefaultCarrier == "ACME_SHIP"

\* JSON.stringify of an object whose fields are all strings
JSONStringify(obj) == JObj([f \in DOMAIN obj |-> JStr(obj[f])])

\* buildFulfillmentReply without the test of requestedAt
buildFulfillmentReplyNoDateCheck(command, messageId, trackingUuid, t) ==
  [messageId |-> messageId,
   requestId |-> command.requestId,
   orderId |-> command.orderId,
   status |-> "ACCEPTED",
   repliedAt |-> Iso(t),
   trackingId |-> makeTrackingNumber(trackingUuid)]

\* buildFulfillmentReply; its randomUUID() results and the clock are passed in
buildFulfillmentReply(command, messageId, trackingUuid, t) ==
  IF DateParseIsNaN(command.requestedAt)
    THEN [messageId |-> messageId,
          requestId |-> command.requestId,
          orderId |-> command.orderId,
          status |-> "REJECTED",
          repliedAt |-> Iso(t),
          rejectionReason |-> "Invalid requestedAt"]
    ELSE [messageId |-> messageId,
          requestId |-> command.requestId,
          orderId |-> command.orderId,
          status |-> "ACCEPTED",
          repliedAt |-> Iso(t),
          trackingId |-> makeTrackingNumber(trackingUuid)]

\* reply.trackingId as a condition: present and not the empty string
HasTrackingId(reply) == "trackingId" \in DOMAIN reply /\ reply.trackingId # <<>>

\* the record the handler stores, with the tracking number derived from the id
DispatchShipmentFromId(command, reply, shipmentId) ==
  [shipmentId |-> shipmentId,
   orderId |-> command.orderId,
   carrier |-> IF command.carrier = "" THEN DefaultCarrier ELSE command.carrier,
   trackingNumber |-> makeTrackingNumber(shipmentId),
   status |-> "CREATED"]

\* the record the handler stores, with the command's carrier as it came
DispatchShipmentCarrierAsIs(command, reply, shipmentId) ==
  [shipmentId |-> shipmentId,
   orderId |-> command.orderId,
   carrier |-> command.carrier,
   trackingNumber |-> IF HasTrackingId(reply)
                        THEN reply.trackingId
                        ELSE makeTrackingNumber(shipmentId),
   status |-> "CREATED"]

\* the record the handler stores for an accepted command
DispatchShipment(command, reply, shipmentId) ==
  [shipmentId |-> shipmentId,
   orderId |-> command.orderId,
   carrier |-> IF command.carrier = "" THEN DefaultCarrier ELSE command.carrier,
   trackingNumber |-> IF HasTrackingId(reply)
                        THEN reply.trackingId
                        ELSE makeTrackingNumber(shipmentId),
   status |-> "CREATED"]

\* the early returns of eachMessage
Dropped(value) ==
  \/ value.kind = "null"
  \/ ~JSONParse(value).ok
  \/ ~isDispatchCommandEvent(JSONParse(value).doc)

NoId == <<>>

\* what a delivery was, recorded with the handler's outcome: a well-formed
\* command with its fields, or one of the malformed messages
Delivered(value) ==
  IF value \in CommandMessages
    THEN [class |-> "command", command |-> AsCommand(value.doc)]
    ELSE [class |-> "malformed"]

\* the handler returns without waiting for the send
ReplySendNotAwaited == consumerPc' = "idle"

\* await fulfillmentProducer.send(...): the handler is suspended on the send
AwaitReplySend == consumerPc' = "awaitSend"

\* the reply sent under its own messageId as the message key
ReplyRecordKeyedByMessageId(command, reply) ==
  [topic |-> fulfillmentReplyTopic,
   key |-> reply.messageId,
   value |-> JSONStringify(reply),
   state |-> "pending",
   error |-> "none"]

\* the reply is sent to the topic under the command's orderId
ReplyRecord(command, reply) ==
  [topic |-> fulfillmentReplyTopic,
   key |-> command.orderId,
   value |-> JSONStringify(reply),
   state |-> "pending",
   error |-> "none"]

\* the handler from `const command = payload` on, with the values drawn
HandleCommand(value, command, reply, shipmentId, calls) ==
  /\ CanDraw(calls)
  /\ shipments' = IF reply.status = "ACCEPTED"
                    THEN MapSet(shipments, shipmentId,
                                DispatchShipment(command, reply, shipmentId))
                    ELSE shipments
  /\ drawn' = drawn + calls
  /\ sends' = Append(sends, ReplyRecord(command, reply))
  /\ handled' = Append(handled,
                       [delivered |-> Delivered(value),
                        outcome |-> reply.status,
                        shipmentId |-> IF reply.status = "ACCEPTED"
                                         THEN shipmentId ELSE NoId,
                        send |-> Len(sends) + 1])
  /\ AwaitReplySend

\* a drop that also stops the consumer
DropMessageAndStop(value) ==
  /\ handled' = Append(handled,
                       [delivered |-> Delivered(value),
                        outcome |-> "dropped",
                        shipmentId |-> NoId, send |-> 0])
  /\ consumerPc' = "stopped"
  /\ UNCHANGED <<shipments, drawn, sends>>

\* the early returns of eachMessage: the handler resolves, nothing else happens
DropMessage(value) ==
  /\ handled' = Append(handled,
                       [delivered |-> Delivered(value),
                        outcome |-> "dropped",
                        shipmentId |-> NoId, send |-> 0])
  /\ UNCHANGED <<shipments, drawn, sends, consumerPc>>

\* one invocation of eachMessage, up to its first suspension or its return
EachMessage(value) ==
  /\ startPc = "running"
  /\ consumerPc = "idle"
  /\ Len(handled) < MaxDeliveries
  /\ IF Dropped(value)
       THEN DropMessage(value)
       ELSE LET command == AsCommand(JSONParse(value).doc) IN
            IF DateParseIsNaN(command.requestedAt)
              THEN HandleCommand(value, command,
                     buildFulfillmentReply(command, randomUUID(1), NoId, now),
                     NoId, 1)
              ELSE HandleCommand(value, command,
                     buildFulfillmentReply(command, randomUUID(1), randomUUID(2), now),
                     randomUUID(3), 3)
  /\ UNCHANGED <<uuidSeed, lifecycle, now, startPc, kafkaConnected, raised, notifyVia,
                 attempts, responses>>

SendErrors == {"KafkaJSConnectionError", "KafkaJSRequestTimeoutError"}

\* whether the handler is suspended on send number i
Awaited(i) ==
  /\ consumerPc = "awaitSend"
  /\ handled # <<>>
  /\ handled[Len(handled)].send = i

\* a failed send whose error the handler catches and drops
HandlerSwallows(error) == raised' = raised

\* the awaited send rejected: the handler's promise rejects with the same error
HandlerRejects(error) ==
  raised' = Append(raised, [delivery |-> Len(handled), error |-> error])

\* a handler that takes the shipment it stored out again when send number i
\* fails
StoreRolledBackOnFailure(i) ==
  shipments' = SelectSeq(shipments,
                         LAMBDA r : \A n \in DOMAIN handled :
                                      handled[n].send = i => r.shipmentId # handled[n].shipmentId)

\* nothing surrounds the awaited send: when it fails the store stays as the
\* handler left it
StoreKeptOnFailure(i) == shipments' = shipments

\* the broker acknowledges send number i
SendAck(i) ==
  /\ i \in DOMAIN sends
  /\ sends[i].state = "pending"
  /\ sends' = [sends EXCEPT ![i].state = "acked"]
  /\ consumerPc' = IF Awaited(i) THEN "idle" ELSE consumerPc
  /\ UNCHANGED <<shipments, uuidSeed, lifecycle, drawn, now, startPc, kafkaConnected,
                 handled, raised, notifyVia, attempts, responses>>

\* send number i fails with a transport error
SendFail(i, error) ==
  /\ i \in DOMAIN sends
  /\ sends[i].state = "pending"
  /\ sends' = [sends EXCEPT ![i].state = "failed", ![i].error = error]
  /\ IF Awaited(i)
       THEN consumerPc' = "idle" /\ HandlerRejects(error)
       ELSE UNCHANGED <<consumerPc, raised>>
  /\ StoreKeptOnFailure(i)
  /\ UNCHANGED <<uuidSeed, lifecycle, drawn, now, startPc, kafkaConnected,
                 handled, notifyVia, attempts, responses>>

(***************************************************************************)
(* startDispatchCommandConsumer() up to dispatchConsumer.run().            *)
(***************************************************************************)
StartSteps == <<"connectConsumer", "connectProducer", "subscribe", "run", "running">>

StartIndex(pc) == CHOOSE i \in DOMAIN StartSteps : StartSteps[i] = pc

\* the awaited step of the startup completes
StartStep ==
  /\ startPc \in {"connectConsumer", "connectProducer", "subscribe", "run"}
  /\ startPc' = StartSteps[StartIndex(startPc) + 1]
  /\ kafkaConnected' = (kafkaConnected \/ startPc = "connectProducer")
  /\ lifecycle' = [lifecycle EXCEPT
                     !.consumer = IF startPc = "connectConsumer" THEN "connected" ELSE @,
                     !.producer = IF startPc = "connectProducer" THEN "connected" ELSE @]
  /\ UNCHANGED <<shipments, uuidSeed, drawn, now, consumerPc, handled, sends,
                 raised, notifyVia, attempts, responses>>

\* the awaited step of the startup rejects: the failure is logged
StartFail ==
  /\ startPc \in {"connectConsumer", "connectProducer", "subscribe", "run"}
  /\ startPc' = "failed"
  /\ UNCHANGED <<shipments, uuidSeed, lifecycle, drawn, now, kafkaConnected, consumerPc,
                 handled, sends, raised, notifyVia, attempts, responses>>

(***************************************************************************)
(* publishAnalyticsNotification.                                           *)
(***************************************************************************)
\* the call over MQTT: connect, arm the timer, register the two listeners
MqttAttempt(event) ==
  [via |-> "mqtt", event |-> event, completed |-> FALSE, timer |-> "armed",
   onConnect |-> TRUE, onError |-> TRUE, publish |-> "none", ends |-> 0,
   logged |-> 0]

\* the call over Kafka: the send is started and its rejection handler attached
KafkaAttempt(event) ==
  [via |-> "kafka", event |-> event, state |-> "pending", logged |-> 0]

\* the call made twice for one event
publishAnalyticsNotificationTwice(event) ==
  attempts' = Append(Append(attempts,
                            IF notifyVia = "mqtt" THEN MqttAttempt(event)
                            ELSE KafkaAttempt(event)),
                     IF notifyVia = "mqtt" THEN MqttAttempt(event)
                     ELSE KafkaAttempt(event))

publishAnalyticsNotification(event) ==
  attempts' = Append(attempts,
                     IF notifyVia = "mqtt" THEN MqttAttempt(event)
                     ELSE KafkaAttempt(event))

\* done() without the completed flag
doneUnguarded(a) == [a EXCEPT !.completed = TRUE, !.ends = @ + 1]

\* done(): client.end(true) unless already completed
done(a) ==
  IF a.completed THEN a
  ELSE [a EXCEPT !.completed = TRUE, !.ends = @ + 1]

\* clearTimeout(timeout)
clearTimeout(a) == [a EXCEPT !.timer = IF @ = "armed" THEN "cleared" ELSE @]

IsMqtt(i) == i \in DOMAIN attempts /\ attempts[i].via = "mqtt"

IsKafka(i) == i \in DOMAIN attempts /\ attempts[i].via = "kafka"

\* the 1500 ms timer fires
TimeoutFire(i) ==
  /\ IsMqtt(i)
  /\ attempts[i].timer = "armed"
  /\ attempts' = [attempts EXCEPT ![i] = done([@ EXCEPT !.timer = "fired"])]
  /\ UNCHANGED <<shipments, uuidSeed, lifecycle, drawn, now, startPc, kafkaConnected,
                 consumerPc, handled, sends, raised, notifyVia, responses>>

\* a connect listener that also clears the timer
MqttConnectClearsTimer(i) ==
  /\ IsMqtt(i)
  /\ attempts[i].onConnect
  /\ attempts' = [attempts EXCEPT ![i] = clearTimeout([@ EXCEPT !.onConnect = FALSE,
                                                               !.publish = "pending"])]
  /\ UNCHANGED <<shipments, uuidSeed, lifecycle, drawn, now, startPc, kafkaConnected,
                 consumerPc, handled, sends, raised, notifyVia, responses>>

\* 'connect' is emitted: the once-listener publishes
MqttConnect(i) ==
  /\ IsMqtt(i)
  /\ attempts[i].onConnect
  /\ attempts' = [attempts EXCEPT ![i] = [@ EXCEPT !.onConnect = FALSE,
                                                  !.publish = "pending"]]
  /\ UNCHANGED <<shipments, uuidSeed, lifecycle, drawn, now, startPc, kafkaConnected,
                 consumerPc, handled, sends, raised, notifyVia, responses>>

\* the publish callback runs, with or without an error
MqttPublishCallback(i, error) ==
  /\ IsMqtt(i)
  /\ attempts[i].publish = "pending"
  /\ attempts' = [attempts EXCEPT ![i] =
                    done(clearTimeout([@ EXCEPT !.publish = "called",
                                               !.logged = IF error THEN @ + 1 ELSE @]))]
  /\ UNCHANGED <<shipments, uuidSeed, lifecycle, drawn, now, startPc, kafkaConnected,
                 consumerPc, handled, sends, raised, notifyVia, responses>>

\* an error listener that also fails the request that started the attempt
MqttErrorFailsRequest(i) ==
  /\ IsMqtt(i)
  /\ attempts[i].onError
  /\ attempts' = [attempts EXCEPT ![i] =
                    done(clearTimeout([@ EXCEPT !.onError = FALSE,
                                               !.logged = @ + 1]))]
  /\ responses' = [n \in DOMAIN responses |->
                     IF n = Len(responses)
                       THEN [responses[n] EXCEPT !.status = 500]
                       ELSE responses[n]]
  /\ UNCHANGED <<shipments, uuidSeed, lifecycle, drawn, now, startPc, kafkaConnected,
                 consumerPc, handled, sends, raised, notifyVia>>

\* 'error' is emitted: the once-listener logs and tears down
MqttError(i) ==
  /\ IsMqtt(i)
  /\ attempts[i].onError
  /\ attempts' = [attempts EXCEPT ![i] =
                    done(clearTimeout([@ EXCEPT !.onError = FALSE,
                                               !.logged = @ + 1]))]
  /\ UNCHANGED <<shipments, uuidSeed, lifecycle, drawn, now, startPc, kafkaConnected,
                 consumerPc, handled, sends, raised, notifyVia, responses>>

\* the Kafka send of the notification resolves
KafkaNotifyResolve(i) ==
  /\ IsKafka(i)
  /\ attempts[i].state = "pending"
  /\ attempts' = [attempts EXCEPT ![i].state = "resolved"]
  /\ UNCHANGED <<shipments, uuidSeed, lifecycle, drawn, now, startPc, kafkaConnected,
                 consumerPc, handled, sends, raised, notifyVia, responses>>

\* the Kafka send of the notification rejects: .catch logs it
KafkaNotifyReject(i) ==
  /\ IsKafka(i)
  /\ attempts[i].state = "pending"
  /\ attempts' = [attempts EXCEPT ![i].state = "rejected", ![i].logged = @ + 1]
  /\ UNCHANGED <<shipments, uuidSeed, lifecycle, drawn, now, startPc, kafkaConnected,
                 consumerPc, handled, sends, raised, notifyVia, responses>>

(***************************************************************************)
(* The HTTP routes POST /shipments and POST /shipments/:shipmentId/cancel. *)
(***************************************************************************)
Digits == <<"0", "1", "2", "3", "4", "5", "6", "7", "8", "9">>

IsHexChar(c) == \E i \in 1..16 : c = HexDigit[i] \/ c = UpperChar(HexDigit[i])

HexValue(c) == (CHOOSE i \in 1..16 : c = HexDigit[i] \/ c = UpperChar(HexDigit[i])) - 1

\* the character of a code unit, for '-', the digits and the ASCII letters,
\* which are the escapes the model's request paths hold
AsciiChar(code) ==
  IF code = 45 THEN "-"
  ELSE IF code \in 48..57 THEN Digits[code - 47]
  ELSE IF code \in 65..90 THEN Upper[code - 64]
  ELSE IF code \in 97..122 THEN Lower[code - 96]
  ELSE "?"

\* decodeURIComponent(s): the decoded text, or a URIError
RECURSIVE decodeURIComponent(_)
decodeURIComponent(s) ==
  IF s = <<>> THEN [ok |-> TRUE, v |-> <<>>]
  ELSE IF Head(s) # "%"
    THEN LET rest == decodeURIComponent(Tail(s)) IN
         IF rest.ok THEN [ok |-> TRUE, v |-> <<Head(s)>> \o rest.v] ELSE rest
  ELSE IF Len(s) >= 3 /\ IsHexChar(s[2]) /\ IsHexChar(s[3])
    THEN LET rest == decodeURIComponent(SubSeq(s, 4, Len(s))) IN
         IF rest.ok
           THEN [ok |-> TRUE,
                 v |-> <<AsciiChar(16 * HexValue(s[2]) + HexValue(s[3]))>> \o rest.v]
           ELSE rest
  ELSE [ok |-> FALSE]

\* String.prototype.trim for the space character
RECURSIVE TrimStart(_)
TrimStart(s) ==
  IF s # <<>> /\ Head(s) = " " THEN TrimStart(Tail(s)) ELSE s

RECURSIVE TrimEnd(_)
TrimEnd(s) ==
  IF s # <<>> /\ s[Len(s)] = " " THEN TrimEnd(SubSeq(s, 1, Len(s) - 1)) ELSE s

trim(s) == TrimEnd(TrimStart(s))

\* the field read without trim()
UntrimmedField(payload, f) ==
  IF payload.t = "object" /\ HasStringField(payload, f) THEN payload.v[f].v
  ELSE <<>>

\* typeof payload[f] === 'string' ? payload[f].trim() : ''
TrimmedField(payload, f) ==
  IF payload.t = "object" /\ HasStringField(payload, f) THEN trim(payload.v[f].v)
  ELSE <<>>

Postal == <<"1", "0", "0", "0", "1">>

OrderIdInputs == {JNum(5), JStr(<<" ">>), JStr(OrderO1), JStr(<<" ">> \o OrderO2 \o <<" ">>)}

PostalInputs == {JNum(10001), JStr(<<" ", " ">>), JStr(Postal)}

\* request bodies as express.json() leaves them in req.body
Bodies ==
  {JObj([orderId |-> o, destinationPostalCode |-> d]) :
     o \in OrderIdInputs, d \in PostalInputs}
    \cup {JObj([orderId |-> JStr(OrderO1)]),
          JObj([destinationPostalCode |-> JStr(Postal)]),
          JObj(<<>>), JArr(<<>>)}

toShipmentView(shipment) ==
  [shipmentId |-> shipment.shipmentId,
   orderId |-> shipment.orderId,
   carrier |-> shipment.carrier,
   trackingNumber |-> shipment.trackingNumber,
   status |-> shipment.status]

buildDefaultShipment(shipmentId) ==
  [shipmentId |-> shipmentId,
   orderId |-> <<"o", "r", "d", "e", "r", "-">> \o shipmentId,
   carrier |-> DefaultCarrier,
   trackingNumber |-> makeTrackingNumber(shipmentId),
   status |-> "IN_TRANSIT"]

Respond(route, status, body) ==
  responses' = Append(responses, [route |-> route, status |-> status, body |-> body])

\* POST /shipments
Create(body) ==
  /\ LET orderId == TrimmedField(body, "orderId")
         destinationPostalCode == TrimmedField(body, "destinationPostalCode")
     IN
     IF orderId = <<>>
       THEN /\ Respond("create", 400, [error |-> "orderId must be a non-empty string"])
            /\ UNCHANGED <<shipments, drawn, attempts>>
     ELSE IF destinationPostalCode = <<>>
       THEN /\ Respond("create", 400,
                       [error |-> "destinationPostalCode must be a non-empty string"])
            /\ UNCHANGED <<shipments, drawn, attempts>>
     ELSE LET shipmentId == randomUUID(1)
              notificationId == randomUUID(2)
              shipment == [shipmentId |-> shipmentId,
                             orderId |-> orderId,
                             carrier |-> DefaultCarrier,
                             trackingNumber |-> makeTrackingNumber(shipmentId),
                             status |-> "CREATED"]
          IN
            /\ CanDraw(2)
            /\ shipments' = MapSet(shipments, shipmentId, shipment)
            /\ drawn' = drawn + 2
            /\ publishAnalyticsNotification(
                 [notificationId |-> notificationId,
                  requestId |-> shipmentId,
                  title |-> "ShipmentCreated",
                  body |-> <<"Shipment ", shipmentId, " created for order ", orderId>>,
                  priority |-> "NORMAL"])
            /\ Respond("create", 201, toShipmentView(shipment))
  /\ UNCHANGED <<uuidSeed, lifecycle, now, startPc, kafkaConnected, consumerPc, handled,
                 sends, raised, notifyVia>>

ClientId == <<"x", "-", "1">>

\* values of req.params.shipmentId: stored ids, an unknown id, the same id
\* with its dash escaped, and a text that is no valid escape
CancelParams ==
  MapKeys(shipments) \cup {ClientId, <<"x", "%", "2", "D", "1">>, <<"x", "%">>}

\* a cancelled record that keeps the cancelledAt the shipment already has
CancelledKeepsStamp(existing, t) ==
  [f \in DOMAIN existing \cup {"cancelledAt"} |->
     IF f = "status" THEN "CANCELLED"
     ELSE IF f = "cancelledAt"
       THEN IF "cancelledAt" \in DOMAIN existing THEN existing.cancelledAt ELSE Iso(t)
     ELSE existing[f]]

\* a cancelled record without the cancelledAt stamp
CancelledWithoutStamp(existing, t) ==
  [f \in DOMAIN existing |-> IF f = "status" THEN "CANCELLED" ELSE existing[f]]

\* a cancelled record made from the default shipment of the id, not from the
\* stored one
CancelledFromDefault(existing, t) ==
  [f \in DOMAIN existing \cup {"cancelledAt"} |->
     IF f = "status" THEN "CANCELLED"
     ELSE IF f = "cancelledAt" THEN Iso(t)
     ELSE buildDefaultShipment(existing.shipmentId)[f]]

\* { ...existing, status: 'CANCELLED', cancelledAt: new Date().toISOString() }
Cancelled(existing, t) ==
  [f \in DOMAIN existing \cup {"cancelledAt"} |->
     IF f = "status" THEN "CANCELLED"
     ELSE IF f = "cancelledAt" THEN Iso(t)
     ELSE existing[f]]

\* POST /shipments/:shipmentId/cancel
Cancel(param) ==
  /\ LET decoded == decodeURIComponent(param) IN
     IF ~decoded.ok
       THEN \* the URIError reaches the framework's error handler
            /\ Respond("cancel", 500, [error |-> "URIError"])
            /\ UNCHANGED <<shipments, drawn, attempts>>
       ELSE LET shipmentId == decoded.v
                notificationId == randomUUID(1)
                existing == IF MapHas(shipments, shipmentId)
                              THEN MapGet(shipments, shipmentId)
                              ELSE buildDefaultShipment(shipmentId)
                cancelled == Cancelled(existing, now)
            IN
            /\ CanDraw(1)
            /\ shipments' = MapSet(shipments, shipmentId, cancelled)
            /\ drawn' = drawn + 1
            /\ publishAnalyticsNotification(
                 [notificationId |-> notificationId,
                  requestId |-> shipmentId,
                  title |-> "ShipmentCancelled",
                  body |-> <<"Shipment ", shipmentId, " cancelled">>,
                  priority |-> "NORMAL"])
            /\ Respond("cancel", 200, toShipmentView(cancelled))
  /\ UNCHANGED <<uuidSeed, lifecycle, now, startPc, kafkaConnected, consumerPc, handled,
                 sends, raised, notifyVia>>

\* a GET /shipments/:shipmentId that answers 404 for an id the store lacks
GetOr404(param) ==
  /\ LET decoded == decodeURIComponent(param) IN
     IF ~decoded.ok
       THEN Respond("get", 500, [error |-> "URIError"])
       ELSE IF MapHas(shipments, decoded.v)
              THEN Respond("get", 200, toShipmentView(MapGet(shipments, decoded.v)))
              ELSE Respond("get", 404, [error |-> "Not found"])
  /\ UNCHANGED <<shipments, uuidSeed, lifecycle, drawn, now, startPc, kafkaConnected,
                 consumerPc, handled, sends, raised, notifyVia, attempts>>

\* GET /shipments/:shipmentId
Get(param) ==
  /\ LET decoded == decodeURIComponent(param) IN
     IF ~decoded.ok
       THEN \* the URIError reaches the framework's error handler
            Respond("get", 500, [error |-> "URIError"])
       ELSE LET shipmentId == decoded.v
                shipment == IF MapHas(shipments, shipmentId)
                              THEN MapGet(shipments, shipmentId)
                              ELSE buildDefaultShipment(shipmentId)
            IN Respond("get", 200, toShipmentView(shipment))
  /\ UNCHANGED <<shipments, uuidSeed, lifecycle, drawn, now, startPc, kafkaConnected,
                 consumerPc, handled, sends, raised, notifyVia, attempts>>

\* values of req.query.orderId: absent, a repeated parameter (an array), the
\* empty text, and the orderIds of the requests and the commands
Queries == {Undefined, JArr(<<>>), JStr(<<>>), JStr(OrderO1), JStr(OrderO2)}

OrderDefault == <<"o", "r", "d", "e", "r", "-", "d", "e", "f", "a", "u", "l", "t">>

\* Array.prototype.filter
RECURSIVE Filter(_, _)
Filter(list, orderId) ==
  IF list = <<>> THEN <<>>
  ELSE IF Head(list).orderId = orderId
    THEN <<Head(list)>> \o Filter(Tail(list), orderId)
    ELSE Filter(Tail(list), orderId)

\* a made-up record that never takes the orderId of the query
ListPlaceholderDefaultOrder(orderId, shipmentUuid, trackingUuid) ==
  [shipmentId |-> shipmentUuid,
   orderId |-> OrderDefault,
   carrier |-> DefaultCarrier,
   trackingNumber |-> makeTrackingNumber(trackingUuid),
   status |-> "IN_TRANSIT"]

\* the record the list route makes up for an empty store, with its two
\* randomUUID() results passed in
ListPlaceholder(orderId, shipmentUuid, trackingUuid) ==
  [shipmentId |-> shipmentUuid,
   orderId |-> IF orderId = <<>> THEN OrderDefault ELSE orderId,
   carrier |-> DefaultCarrier,
   trackingNumber |-> makeTrackingNumber(trackingUuid),
   status |-> "IN_TRANSIT"]

\* GET /shipments; orderId is <<>> where the code has undefined or '', both
\* of which it only tests for truth
List(query) ==
  /\ LET orderId == IF query.t = "string" THEN query.v ELSE <<>>
         values == [i \in DOMAIN shipments |-> shipments[i]]
         list == IF Len(values) = 0
                   THEN <<ListPlaceholder(orderId, randomUUID(1), randomUUID(2))>>
                   ELSE values
         filtered == IF orderId # <<>> THEN Filter(list, orderId) ELSE list
     IN
     /\ Len(values) = 0 => CanDraw(2)
     /\ drawn' = IF Len(values) = 0 THEN drawn + 2 ELSE drawn
     /\ Respond("list", 200, [i \in DOMAIN filtered |-> toShipmentView(filtered[i])])
  /\ UNCHANGED <<shipments, uuidSeed, lifecycle, now, startPc, kafkaConnected,
                 consumerPc, handled, sends, raised, notifyVia, attempts>>

\* time passes
Tick ==
  /\ now < MaxClock
  /\ now' = now + 1
  /\ UNCHANGED <<shipments, uuidSeed, lifecycle, drawn, startPc, kafkaConnected,
                 consumerPc, handled, sends, raised, notifyVia, attempts,
                 responses>>

(***************************************************************************)
(* shutdown(), registered once for SIGINT and once for SIGTERM.            *)
(***************************************************************************)
Signals == {"SIGINT", "SIGTERM"}

Clients == {"consumer", "producer"}

\* the handler of the signal runs shutdown() up to its await, or, with
\* kafkaConnected false, straight to process.exit(0)
Signal(sig) ==
  /\ ~lifecycle.exited
  /\ sig \notin lifecycle.signals
  /\ lifecycle' =
       IF kafkaConnected
         THEN [lifecycle EXCEPT
                 !.signals = @ \cup {sig},
                 !.calls = Append(@, [consumer |-> "pending", producer |-> "pending"])]
         ELSE [lifecycle EXCEPT !.signals = @ \cup {sig}, !.exited = TRUE]
  /\ UNCHANGED <<shipments, uuidSeed, drawn, now, startPc, kafkaConnected,
                 consumerPc, handled, sends, raised, notifyVia, attempts,
                 responses>>

\* a disconnect() of shutdown() call k resolves or rejects
DisconnectSettle(k, client, outcome) ==
  /\ ~lifecycle.exited
  /\ k \in DOMAIN lifecycle.calls
  /\ lifecycle.calls[k][client] = "pending"
  /\ lifecycle' = [lifecycle EXCEPT !.calls[k][client] = outcome]
  /\ UNCHANGED <<shipments, uuidSeed, drawn, now, startPc, kafkaConnected,
                 consumerPc, handled, sends, raised, notifyVia, attempts,
                 responses>>

\* Promise.allSettled of call k has resolved: process.exit(0)
Exit(k) ==
  /\ ~lifecycle.exited
  /\ k \in DOMAIN lifecycle.calls
  /\ \A client \in Clients : lifecycle.calls[k][client] # "pending"
  /\ lifecycle' = [lifecycle EXCEPT !.exited = TRUE]
  /\ UNCHANGED <<shipments, uuidSeed, drawn, now, startPc, kafkaConnected,
                 consumerPc, handled, sends, raised, notifyVia, attempts,
                 responses>>

(***************************************************************************)
(* The state after the module has been loaded, and the steps.              *)
(***************************************************************************)
Init ==
  /\ shipments = <<>>
  /\ uuidSeed \in UuidSeeds
  /\ drawn = 0
  /\ now = 0
  /\ startPc = "connectConsumer"
  /\ kafkaConnected = FALSE
  /\ consumerPc = "idle"
  /\ handled = <<>>
  /\ sends = <<>>
  /\ raised = <<>>
  /\ notifyVia \in {"mqtt", "kafka"}
  /\ attempts = <<>>
  /\ responses = <<>>
  /\ lifecycle = [consumer |-> "none", producer |-> "none", signals |-> {},
                  calls |-> <<>>, exited |-> FALSE]

\* the consumer: its startup, its handler and the sends it awaits
ConsumerNext ==
  \/ StartStep
  \/ StartFail
  \/ \E value \in Messages : EachMessage(value)
  \/ \E i \in DOMAIN sends : SendAck(i)
  \/ \E i \in DOMAIN sends, error \in SendErrors : SendFail(i, error)
  \/ Tick

\* the server has answered fewer than n requests
Accepting(n) == Len(responses) < n

\* the HTTP routes that write the store and the notifications they start
HttpNext ==
  \/ \E body \in Bodies : Accepting(MaxRequests) /\ Create(body)
  \/ \E param \in CancelParams : Accepting(MaxRequests) /\ Cancel(param)
  \/ \E i \in DOMAIN attempts : TimeoutFire(i)
  \/ \E i \in DOMAIN attempts : MqttConnect(i)
  \/ \E i \in DOMAIN attempts, error \in BOOLEAN : MqttPublishCallback(i, error)
  \/ \E i \in DOMAIN attempts : MqttError(i)
  \/ \E i \in DOMAIN attempts : KafkaNotifyResolve(i)
  \/ \E i \in DOMAIN attempts : KafkaNotifyReject(i)
  \/ Tick

\* the four HTTP routes, each request handled in one step
RoutesNext ==
  \/ \E body \in Bodies : Accepting(MaxCalls) /\ Create(body)
  \/ \E param \in CancelParams : Accepting(MaxCalls) /\ Cancel(param)
  \/ \E param \in CancelParams : Accepting(MaxCalls) /\ Get(param)
  \/ \E query \in Queries : Accepting(MaxCalls) /\ List(query)
  \/ Tick

\* the messages and the request bodies of the interleaved runs: a command
\* that is accepted and a message that is dropped, a body that is stored
\* and a body that is refused
StoreMessages == {JsonBuffer(CommandDoc(SampleCommand)), GarbageBuffer}

StoreBodies ==
  {JObj([orderId |-> JStr(OrderO2), destinationPostalCode |-> JStr(Postal)]),
   JObj(<<>>)}

\* the consumer and the routes that write the store, on the one event loop: a
\* request is handled between any two steps of the consumer, also while its
\* handler is suspended on a send
StoreNext ==
  \/ StartStep
  \/ \E value \in StoreMessages : EachMessage(value)
  \/ \E i \in DOMAIN sends : SendAck(i)
  \/ \E i \in DOMAIN sends : SendFail(i, "KafkaJSConnectionError")
  \/ \E body \in StoreBodies : Accepting(MaxRequests) /\ Create(body)
  \/ \E param \in MapKeys(shipments) \cup {ClientId} :
        Accepting(MaxRequests) /\ Cancel(param)
  \/ Tick

\* a command that is accepted, a command that is rejected and a message that
\* is dropped
NotifyMessages ==
  {JsonBuffer(CommandDoc(SampleCommand)),
   JsonBuffer(CommandDoc([messageId |-> "m4", requestId |-> "r4", orderId |-> OrderO1,
                          carrier |-> "UPS", requestedAt |-> ""])),
   GarbageBuffer}

\* the consumer and the routes that notify, with requests that are answered
\* and requests that are refused
NotifyNext ==
  \/ StartStep
  \/ \E value \in NotifyMessages : EachMessage(value)
  \/ \E i \in DOMAIN sends : SendAck(i)
  \/ \E i \in DOMAIN sends : SendFail(i, "KafkaJSRequestTimeoutError")
  \/ \E body \in StoreBodies : Accepting(MaxRequests) /\ Create(body)
  \/ \E param \in MapKeys(shipments) \cup {ClientId, <<"x", "%">>} :
        Accepting(MaxRequests) /\ Cancel(param)

\* bodies of two orders, both stored
ListBodies ==
  {JObj([orderId |-> JStr(o), destinationPostalCode |-> JStr(Postal)]) :
     o \in {OrderO1, OrderO2}}

\* the store filled, cancelled in and listed
ListNext ==
  \/ \E body \in ListBodies : Accepting(MaxListCalls) /\ Create(body)
  \/ \E param \in MapKeys(shipments) : Accepting(MaxListCalls) /\ Cancel(param)
  \/ \E query \in Queries : Accepting(MaxListCalls) /\ List(query)

\* the startup of the consumer and the shutdown of the process; nothing runs
\* once the process has exited
ShutdownNext ==
  \/ ~lifecycle.exited /\ StartStep
  \/ ~lifecycle.exited /\ StartFail
  \/ \E sig \in Signals : Signal(sig)
  \/ \E k \in DOMAIN lifecycle.calls, client \in Clients,
        outcome \in {"resolved", "rejected"} : DisconnectSettle(k, client, outcome)
  \/ \E k \in DOMAIN lifecycle.calls : Exit(k)
  \/ ~lifecycle.exited /\ Tick

Next == ConsumerNext \/ HttpNext \/ RoutesNext \/ ShutdownNext

ListSpec == Init /\ [][ListNext]_vars

NotifySpec == Init /\ [][NotifyNext]_vars

\* every disconnect() settles, and the continuation of a settled allSettled
\* runs
ShutdownLive ==
  /\ Init
  /\ [][ShutdownNext]_vars
  /\ WF_vars(\E k \in 1..2, client \in Clients, outcome \in {"resolved", "rejected"} :
               DisconnectSettle(k, client, outcome))
  /\ WF_vars(\E k \in 1..2 : Exit(k))

Spec == Init /\ [][Next]_vars

ConsumerSpec == Init /\ [][ConsumerNext]_vars

HttpSpec == Init /\ [][HttpNext]_vars

RoutesSpec == Init /\ [][RoutesNext]_vars

StoreSpec == Init /\ [][StoreNext]_vars

(***************************************************************************)
(* Properties of the consumer.                                             *)
(***************************************************************************)
\* this step is an invocation of eachMessage
Invoked == Len(handled') = Len(handled) + 1

\* what the invocation of this step was delivered
Delivery == handled'[Len(handled')].delivered

\* this step leaves the entries the store already had as they were
KeepsStored == SubSeq(shipments', 1, Len(shipments)) = shipments

\* this step hands exactly one more reply to the producer
OneMoreSend ==
  /\ Len(sends') = Len(sends) + 1
  /\ SubSeq(sends', 1, Len(sends)) = sends
  /\ sends'[Len(sends')].topic = fulfillmentReplyTopic
  /\ sends'[Len(sends')].state = "pending"

\* the reply of the latest send, as the JSON object that was sent
SentReply == sends'[Len(sends')].value.v

\* C1: an invocation of the handler on a well-formed command whose requestedAt
\* parses adds exactly one shipment, with status CREATED and the command's
\* orderId, and sends exactly one reply, with status ACCEPTED and a trackingId
\* equal to the trackingNumber of the shipment it added.
C1_AcceptedCreatesOneShipmentOneReply ==
  [][(/\ Invoked
      /\ Delivery.class = "command"
      /\ Delivery.command.requestedAt = ValidRequestedAt)
     => /\ Len(shipments') = Len(shipments) + 1
        /\ KeepsStored
        /\ shipments'[Len(shipments')].status = "CREATED"
        /\ shipments'[Len(shipments')].orderId = Delivery.command.orderId
        /\ shipments'[Len(shipments')].shipmentId = handled'[Len(handled')].shipmentId
        /\ OneMoreSend
        /\ SentReply.status = JStr("ACCEPTED")
        /\ SentReply.trackingId = JStr(shipments'[Len(shipments')].trackingNumber)]_vars

\* a command with a valid requestedAt has been accepted: its shipment is stored
\* and its reply has been handed to the producer
C1_Witness ==
  \E n \in DOMAIN handled :
    /\ handled[n].delivered.class = "command"
    /\ handled[n].delivered.command.requestedAt = ValidRequestedAt
    /\ handled[n].outcome = "ACCEPTED"
    /\ MapHas(shipments, handled[n].shipmentId)
    /\ sends[handled[n].send].value.v.status = JStr("ACCEPTED")

\* C2: an invocation of the handler on a well-formed command whose requestedAt
\* does not parse sends exactly one reply, with status REJECTED, the reason
\* 'Invalid requestedAt' and no trackingId, and leaves the store as it was.
C2_RejectedRepliesAndStoresNothing ==
  [][(/\ Invoked
      /\ Delivery.class = "command"
      /\ Delivery.command.requestedAt # ValidRequestedAt)
     => /\ shipments' = shipments
        /\ OneMoreSend
        /\ SentReply.status = JStr("REJECTED")
        /\ SentReply.rejectionReason = JStr("Invalid requestedAt")
        /\ "trackingId" \notin DOMAIN SentReply
        /\ SentReply.requestId = JStr(Delivery.command.requestId)
        /\ SentReply.orderId = JStr(Delivery.command.orderId)]_vars

\* a command whose requestedAt is no timestamp has been rejected
C2_Witness ==
  \E n \in DOMAIN handled :
    /\ handled[n].delivered.class = "command"
    /\ handled[n].delivered.command.requestedAt = "not-a-date"
    /\ handled[n].outcome = "REJECTED"
    /\ sends[handled[n].send].value.v.status = JStr("REJECTED")

\* C3: an invocation of the handler on a malformed message returns without an
\* error, leaves the store as it was and sends no reply.
C3_MalformedIsDropped ==
  [][(Invoked /\ Delivery.class = "malformed")
     => /\ shipments' = shipments
        /\ sends' = sends
        /\ raised' = raised
        /\ consumerPc' = "idle"
        /\ handled'[Len(handled')].outcome = "dropped"]_vars

\* a malformed message has been delivered after a command was accepted
C3_Witness ==
  \E n \in DOMAIN handled :
    /\ n > 1
    /\ handled[n].delivered.class = "malformed"
    /\ handled[n].outcome = "dropped"
    /\ shipments # <<>>

\* the invocations that were delivered the command with this messageId and
\* stored a shipment for it
StoredFor(messageId) ==
  {n \in DOMAIN handled :
     /\ handled[n].delivered.class = "command"
     /\ handled[n].delivered.command.messageId = messageId
     /\ handled[n].outcome = "ACCEPTED"
     /\ MapHas(shipments, handled[n].shipmentId)}

\* C4: however often a command is delivered, the store holds at most one
\* shipment for it (one per messageId), and every accepted command has its
\* shipment in the store.
C4_OneShipmentPerCommand ==
  /\ \A n \in DOMAIN handled :
       handled[n].outcome = "ACCEPTED" => MapHas(shipments, handled[n].shipmentId)
  /\ \A c \in Commands : Cardinality(StoredFor(c.messageId)) <= 1

\* C5: every stored shipment's trackingNumber is makeTrackingNumber of its own
\* shipmentId.
C5_TrackingNumberIsFunctionOfId ==
  \A i \in DOMAIN shipments :
    shipments[i].trackingNumber = makeTrackingNumber(shipments[i].shipmentId)

\* C9: a reply send is pending only while the handler that made it is suspended
\* on it, so at most one is pending, and no invocation of the handler starts
\* while a send of an earlier invocation is pending: each reply is settled
\* before the next command changes the store or sends its reply.
C9_NoPipelining ==
  /\ [](\A i \in DOMAIN sends :
          sends[i].state = "pending"
            => /\ consumerPc = "awaitSend"
               /\ i = Len(sends)
               /\ handled[Len(handled)].send = i)
  /\ [][Invoked => \A i \in DOMAIN sends : sends[i].state # "pending"]_vars

\* two commands have been handled and the reply of the first was settled
\* before the second was sent
C9_Witness ==
  /\ Len(sends) = 2
  /\ sends[1].state \in {"acked", "failed"}
  /\ handled[1].send = 1
  /\ handled[2].send = 2

\* C10: every failed reply send made the invocation that awaited it reject
\* with the error of the send, and each invocation that got past validation
\* called send exactly once: no send is repeated.
C10_SendFailurePropagatesNoRetry ==
  /\ \A i \in DOMAIN sends :
       sends[i].state = "failed"
         => \E r \in DOMAIN raised :
              /\ raised[r].error = sends[i].error
              /\ handled[raised[r].delivery].send = i
  /\ \A r \in DOMAIN raised :
       sends[handled[raised[r].delivery].send].state = "failed"
  /\ \A n \in DOMAIN handled :
       handled[n].outcome # "dropped" => handled[n].send \in DOMAIN sends
  /\ \A n, m \in DOMAIN handled :
       (n # m /\ handled[n].send # 0) => handled[n].send # handled[m].send
  /\ Len(sends) = Cardinality({n \in DOMAIN handled : handled[n].send # 0})

\* a reply send failed with a request timeout and the handler rejected with it
C10_Witness ==
  \E i \in DOMAIN sends, r \in DOMAIN raised :
    /\ sends[i].state = "failed"
    /\ sends[i].error = "KafkaJSRequestTimeoutError"
    /\ raised[r].error = "KafkaJSRequestTimeoutError"
    /\ handled[raised[r].delivery].send = i

(***************************************************************************)
(* Properties of the notification publisher.                               *)
(***************************************************************************)
\* C6: an MQTT publish attempt calls client.end at most once, whatever the
\* order of the timer, the publish callback and the error event, and has called
\* it exactly once when it is completed.
C6_TeardownAtMostOnce ==
  \A i \in DOMAIN attempts :
    attempts[i].via = "mqtt"
      => /\ attempts[i].ends <= 1
         /\ attempts[i].completed <=> attempts[i].ends = 1

\* the timer fired first and the publish callback and the error event both
\* came after it: three calls of done(), one teardown
C6_Witness ==
  \E i \in DOMAIN attempts :
    /\ attempts[i].via = "mqtt"
    /\ attempts[i].timer = "fired"
    /\ attempts[i].publish = "called"
    /\ ~attempts[i].onError
    /\ attempts[i].ends = 1

\* this step is an event of a publish attempt that was already started
AttemptEvent == \E i \in DOMAIN attempts : attempts'[i] # attempts[i]

\* this step starts a publish attempt
AttemptStarted == Len(attempts') = Len(attempts) + 1

\* C7: the route that starts a publish attempt writes its response, 201 or 200,
\* in the same step, with the attempt not yet answered by the broker; and no
\* later event of an attempt (acknowledgment, error, timeout) changes a
\* response or the store.
C7_NotificationNeverAffectsRequest ==
  /\ [][AttemptStarted
          => /\ Len(responses') = Len(responses) + 1
             /\ SubSeq(responses', 1, Len(responses)) = responses
             /\ responses'[Len(responses')].status \in {200, 201}
             /\ MapHas(shipments', responses'[Len(responses')].body.shipmentId)
             /\ attempts'[Len(attempts')].logged = 0
             /\ attempts'[Len(attempts')] \in
                  {MqttAttempt(attempts'[Len(attempts')].event),
                   KafkaAttempt(attempts'[Len(attempts')].event)}]_vars
  /\ [][AttemptEvent => (responses' = responses /\ shipments' = shipments)]_vars

\* a create was answered 201 and the broker then reported an error, which was
\* logged
C7_Witness ==
  /\ Len(responses) = 1
  /\ responses[1].status = 201
  /\ MapHas(shipments, responses[1].body.shipmentId)
  /\ attempts[1].logged > 0

\* the event loop runs a timer that is armed
HttpLive == HttpSpec /\ \A i \in 1..MaxRequests : WF_vars(TimeoutFire(i))

\* C8: every MQTT publish attempt is eventually completed with its connection
\* torn down, whether or not the broker ever connects, acknowledges or reports
\* an error.
C8_AttemptEventuallyTornDown ==
  \A i \in 1..MaxRequests :
    IsMqtt(i) ~> (IsMqtt(i) /\ attempts[i].completed /\ attempts[i].ends = 1)

\* the broker never answered: the timer alone completed the attempt
C8_Witness ==
  \E i \in DOMAIN attempts :
    /\ attempts[i].via = "mqtt"
    /\ attempts[i].timer = "fired"
    /\ attempts[i].onConnect
    /\ attempts[i].onError
    /\ attempts[i].publish = "none"
    /\ attempts[i].completed
    /\ attempts[i].ends = 1

(***************************************************************************)
(* Properties of the HTTP routes and of the store.                         *)
(***************************************************************************)
\* this step answers a request
Answered == Len(responses') = Len(responses) + 1

\* the response this step writes
Answer == responses'[Len(responses')]

\* this step is a cancel that got past the decoding of its parameter
CancelStep == Answered /\ Answer.route = "cancel" /\ Answer.status = 200

\* the entries of the store under this id
EntriesOf(map, id) == {i \in DOMAIN map : map[i].shipmentId = id}

\* C11: every cancel, the first of an id as well as a repeated one, answers
\* with status CANCELLED and leaves exactly one record of the id in the store,
\* with status CANCELLED and with the time of this cancel as its cancelledAt;
\* a repeated cancel adds no record.
C11_CancelTwice ==
  [][CancelStep
       => LET id == Answer.body.shipmentId IN
          /\ Answer.body.status = "CANCELLED"
          /\ Cardinality(EntriesOf(shipments', id)) = 1
          /\ MapGet(shipments', id).status = "CANCELLED"
          /\ MapGet(shipments', id).cancelledAt = Iso(now)
          /\ MapHas(shipments, id) => Len(shipments') = Len(shipments)]_vars

\* the same id was cancelled twice, the second time after the clock moved on,
\* and the store holds one record of it, stamped with the later time
C11_Witness ==
  /\ Len(responses) >= 2
  /\ responses[1].route = "cancel" /\ responses[1].status = 200
  /\ responses[2].route = "cancel" /\ responses[2].status = 200
  /\ responses[1].body.shipmentId = responses[2].body.shipmentId
  /\ responses[1].body.status = "CANCELLED"
  /\ responses[2].body.status = "CANCELLED"
  /\ now = 1
  /\ Cardinality(EntriesOf(shipments, responses[2].body.shipmentId)) = 1
  /\ MapGet(shipments, responses[2].body.shipmentId).cancelledAt = Iso(1)

\* this step answers a GET /shipments/:shipmentId
GetStep == Answered /\ Answer.route = "get"

OrderPrefix == <<"o", "r", "d", "e", "r", "-">>

\* C12: GET /shipments/:shipmentId never answers 404 and never changes the
\* store; for a parameter that decodes to an id the store lacks it answers 200
\* with a made-up shipment of that id, whose orderId is 'order-' followed by the
\* id, whose carrier is ACME_SHIP and whose status is IN_TRANSIT, and the id
\* is still not in the store afterwards.
C12_UnknownIdIsSynthesized ==
  [][/\ GetStep => (shipments' = shipments /\ Answer.status # 404)
     /\ \A param \in CancelParams :
          LET decoded == decodeURIComponent(param) IN
          (Get(param) /\ decoded.ok /\ ~MapHas(shipments, decoded.v))
            => /\ Answer.status = 200
               /\ Answer.body.shipmentId = decoded.v
               /\ Answer.body.orderId = OrderPrefix \o decoded.v
               /\ Answer.body.carrier = "ACME_SHIP"
               /\ Answer.body.status = "IN_TRANSIT"
               /\ ~MapHas(shipments', decoded.v)]_vars

\* a shipment is stored, and a GET of another id was answered 200 with the
\* made-up shipment, which the store does not hold
C12_Witness ==
  \E n \in DOMAIN responses :
    /\ responses[n].route = "get"
    /\ responses[n].status = 200
    /\ responses[n].body.shipmentId = ClientId
    /\ responses[n].body.orderId = <<"o", "r", "d", "e", "r", "-", "x", "-", "1">>
    /\ responses[n].body.status = "IN_TRANSIT"
    /\ shipments # <<>>
    /\ ~MapHas(shipments, ClientId)

\* the values randomUUID() has returned so far
Generated == {MkUuid(uuidSeed + k) : k \in 1..drawn}

\* the id was given out by a successful POST /shipments
CreatedByRoute(id) ==
  \E n \in DOMAIN responses :
    /\ responses[n].route = "create"
    /\ responses[n].status = 201
    /\ responses[n].body.shipmentId = id

\* the id was given out by the handler of an accepted command
CreatedByCommand(id) ==
  \E n \in DOMAIN handled :
    handled[n].outcome = "ACCEPTED" /\ handled[n].shipmentId = id

\* C13: every record of the store is kept under a shipmentId that randomUUID()
\* returned and that a successful POST /shipments or the handler of an accepted
\* command gave out; no record is kept under an id a client supplied.
C13_IdsAreServiceGenerated ==
  \A i \in DOMAIN shipments :
    /\ shipments[i].shipmentId \in Generated
    /\ CreatedByRoute(shipments[i].shipmentId)
         \/ CreatedByCommand(shipments[i].shipmentId)

\* the field is there, is a string and holds a character that is no space
Usable(body, f) ==
  /\ body.t = "object"
  /\ f \in DOMAIN body.v
  /\ body.v[f].t = "string"
  /\ \E k \in DOMAIN body.v[f].v : body.v[f].v[k] # " "

\* C14: a POST /shipments whose orderId or destinationPostalCode is missing,
\* is no string or is empty after trimming is answered 400 with an error
\* message, changes nothing in the store and starts no notification; one with
\* both fields usable is answered 201 with status CREATED and adds exactly one
\* record, the one the response shows, to the store.
C14_CreateValidates ==
  [][\A body \in Bodies :
       Create(body)
         => IF Usable(body, "orderId") /\ Usable(body, "destinationPostalCode")
              THEN /\ Answer.status = 201
                   /\ Answer.body.status = "CREATED"
                   /\ Len(shipments') = Len(shipments) + 1
                   /\ KeepsStored
                   /\ toShipmentView(shipments'[Len(shipments')]) = Answer.body
              ELSE /\ Answer.status = 400
                   /\ DOMAIN Answer.body = {"error"}
                   /\ shipments' = shipments
                   /\ attempts' = attempts]_vars

\* a create without a usable field was refused and a later one was accepted:
\* the store holds the one shipment of the accepted request
C14_Witness ==
  /\ Len(responses) = 2
  /\ responses[1].route = "create" /\ responses[1].status = 400
  /\ responses[2].route = "create" /\ responses[2].status = 201
  /\ Len(shipments) = 1
  /\ shipments[1].shipmentId = responses[2].body.shipmentId
  /\ Len(attempts) = 1

\* this step answers a GET /shipments
ListStep == Answered /\ Answer.route = "list"

\* C15: GET /shipments with a non-empty orderId filter on an empty store
\* answers 200 with exactly one made-up record, whose orderId is the filter and
\* whose status is IN_TRANSIT; no GET /shipments changes the store, so the
\* record is never inserted; and on a store that is not empty the answer
\* holds views of stored records only.
C15_EmptyStoreListPlaceholder ==
  [][/\ ListStep => (shipments' = shipments /\ Answer.status = 200)
     /\ (ListStep /\ shipments # <<>>)
          => \A k \in DOMAIN Answer.body :
               \E i \in DOMAIN shipments :
                 Answer.body[k] = toShipmentView(shipments[i])
     /\ \A query \in Queries :
          (List(query) /\ shipments = <<>> /\ query.t = "string" /\ query.v # <<>>)
            => /\ Len(Answer.body) = 1
               /\ Answer.body[1].orderId = query.v
               /\ Answer.body[1].status = "IN_TRANSIT"
               /\ Answer.body[1].shipmentId \notin MapKeys(shipments')
               /\ shipments' = <<>>]_vars

\* the empty store was listed with the filter o-1 and answered with one
\* made-up record of that order, and the store is still empty
C15_Witness ==
  \E n \in DOMAIN responses :
    /\ responses[n].route = "list"
    /\ Len(responses[n].body) = 1
    /\ responses[n].body[1].orderId = OrderO1
    /\ responses[n].body[1].status = "IN_TRANSIT"
    /\ shipments = <<>>
    /\ drawn = 2

\* C16: every reply the consumer has sent belongs to one handled command, was
\* sent to the reply topic with that command's orderId as its key, and carries
\* the command's requestId and orderId; its status is ACCEPTED or REJECTED,
\* with a trackingId exactly when it is ACCEPTED and a rejectionReason exactly
\* when it is REJECTED.
C16_ReplyCorrelatesWithCommand ==
  /\ \A i \in DOMAIN sends : \E n \in DOMAIN handled : handled[n].send = i
  /\ \A n \in DOMAIN handled :
       handled[n].send # 0
         => LET command == handled[n].delivered.command
                sent == sends[handled[n].send]
                reply == sent.value.v
            IN
            /\ handled[n].delivered.class = "command"
            /\ sent.topic = "queue.order.fulfillment.reply"
            /\ sent.key = command.orderId
            /\ sent.value.t = "object"
            /\ reply.requestId = JStr(command.requestId)
            /\ reply.orderId = JStr(command.orderId)
            /\ reply.status \in {JStr("ACCEPTED"), JStr("REJECTED")}
            /\ reply.status = JStr(handled[n].outcome)
            /\ "trackingId" \in DOMAIN reply <=> reply.status = JStr("ACCEPTED")
            /\ "rejectionReason" \in DOMAIN reply <=> reply.status = JStr("REJECTED")

\* an ACCEPTED reply for order o-1 and a REJECTED reply for order o-2 have
\* been sent, each under its order's id
C16_Witness ==
  \E i, j \in DOMAIN sends :
    /\ sends[i].key = OrderO1
    /\ sends[i].value.v.status = JStr("ACCEPTED")
    /\ sends[i].value.v.requestId = JStr("r1")
    /\ "trackingId" \in DOMAIN sends[i].value.v
    /\ sends[j].key = OrderO2
    /\ sends[j].value.v.status = JStr("REJECTED")
    /\ sends[j].value.v.requestId = JStr("r3")
    /\ "rejectionReason" \in DOMAIN sends[j].value.v

\* C17: no step removes a record from the store, a stored shipment with status
\* CANCELLED has status CANCELLED after every step, and a stored shipment whose
\* status is not CREATED never has status CREATED after a step, whether the
\* step is an HTTP request or a step of the consumer.
C17_StatusMonotonic ==
  [][\A i \in DOMAIN shipments :
       LET id == shipments[i].shipmentId IN
       /\ MapHas(shipments', id)
       /\ shipments[i].status = "CANCELLED"
            => MapGet(shipments', id).status = "CANCELLED"
       /\ shipments[i].status # "CREATED"
            => MapGet(shipments', id).status # "CREATED"]_vars

\* the shipment of an accepted command was cancelled, the handler accepted
\* another command after the cancel (the cancel drew the fourth UUID, between
\* the three of the first command and the three of the second), and the first
\* shipment is still CANCELLED next to the new one
C17_Witness ==
  /\ Len(handled) = 2
  /\ handled[1].outcome = "ACCEPTED"
  /\ handled[2].outcome = "ACCEPTED"
  /\ Len(responses) = 1
  /\ responses[1].route = "cancel" /\ responses[1].status = 200
  /\ responses[1].body.shipmentId = handled[1].shipmentId
  /\ attempts[1].event.notificationId = MkUuid(uuidSeed + 4)
  /\ MapGet(shipments, handled[1].shipmentId).status = "CANCELLED"
  /\ MapGet(shipments, handled[2].shipmentId).status = "CREATED"

\* C18: a dropped message raises nothing and leaves the consumer ready for the
\* next message: while the latest delivery is a dropped one the consumer is
\* running and its handler is not suspended; and every well-formed command
\* that was delivered, whatever was dropped before it, was answered with one
\* reply and, when accepted, has its shipment in the store.
C18_MalformedNeverStopsStream ==
  /\ \A n \in DOMAIN handled :
       handled[n].outcome = "dropped"
         => \A r \in DOMAIN raised : raised[r].delivery # n
  /\ (handled # <<>> /\ handled[Len(handled)].outcome = "dropped")
       => /\ consumerPc = "idle"
          /\ startPc = "running"
  /\ \A n \in DOMAIN handled :
       handled[n].delivered.class = "command"
         => /\ handled[n].outcome \in {"ACCEPTED", "REJECTED"}
            /\ handled[n].send \in DOMAIN sends
            /\ handled[n].outcome = "ACCEPTED"
                 => MapHas(shipments, handled[n].shipmentId)

\* a malformed message was dropped and the command delivered after it was
\* accepted: its shipment is stored and its reply acknowledged, no send failed
C18_Witness ==
  /\ Len(handled) = 2
  /\ handled[1].delivered.class = "malformed"
  /\ handled[1].outcome = "dropped"
  /\ handled[2].delivered.class = "command"
  /\ handled[2].outcome = "ACCEPTED"
  /\ MapHas(shipments, handled[2].shipmentId)
  /\ sends[handled[2].send].state = "acked"
  /\ raised = <<>>

\* C19: however the requests are interleaved with the steps of the consumer,
\* also while its handler is suspended on a send, the store holds exactly one
\* record for every shipment an accepted command or an answered POST /shipments
\* created, and every id whose cancel was answered has status CANCELLED in the store.
C19_NoLostUpdate ==
  /\ \A n \in DOMAIN handled :
       handled[n].outcome = "ACCEPTED"
         => Cardinality(EntriesOf(shipments, handled[n].shipmentId)) = 1
  /\ \A n \in DOMAIN responses :
       /\ (responses[n].route = "create" /\ responses[n].status = 201)
            => Cardinality(EntriesOf(shipments, responses[n].body.shipmentId)) = 1
       /\ (responses[n].route = "cancel" /\ responses[n].status = 200)
            => /\ Cardinality(EntriesOf(shipments, responses[n].body.shipmentId)) = 1
               /\ MapGet(shipments, responses[n].body.shipmentId).status = "CANCELLED"

\* while the handler of an accepted command is suspended on its reply send,
\* a cancel of the shipment it has just stored was answered: the store holds
\* the shipment, cancelled
C19_Witness ==
  /\ consumerPc = "awaitSend"
  /\ Len(handled) = 1
  /\ handled[1].outcome = "ACCEPTED"
  /\ sends[handled[1].send].state = "pending"
  /\ Len(responses) = 1
  /\ responses[1].route = "cancel"
  /\ responses[1].status = 200
  /\ responses[1].body.shipmentId = handled[1].shipmentId
  /\ MapGet(shipments, handled[1].shipmentId).status = "CANCELLED"
  /\ MapGet(shipments, handled[1].shipmentId).orderId = OrderO1

\* the fields a shipment is created with
CreationFields == {"shipmentId", "orderId", "carrier", "trackingNumber"}

\* C20: a cancel changes, in the store, only the record of its id, and of that
\* record only status and cancelledAt: every other record is the same after
\* the step, no record moves, and the id's orderId, carrier and trackingNumber
\* are the stored ones; so the record of a shipment an accepted command
\* created always has the command's orderId and carrier and the reply's
\* trackingId, and that of a POST /shipments the values of its 201 response,
\* however often it was cancelled.
C20_CancelFrame ==
  /\ [][CancelStep
          => LET id == Answer.body.shipmentId IN
             /\ Len(shipments') = Len(shipments) + (IF MapHas(shipments, id) THEN 0 ELSE 1)
             /\ \A i \in DOMAIN shipments :
                  IF shipments[i].shipmentId # id
                    THEN shipments'[i] = shipments[i]
                    ELSE /\ \A f \in CreationFields : shipments'[i][f] = shipments[i][f]
                         /\ DOMAIN shipments'[i] = CreationFields \cup {"status", "cancelledAt"}]_vars
  /\ [](\A n \in DOMAIN handled :
          handled[n].outcome = "ACCEPTED"
            => LET stored == MapGet(shipments, handled[n].shipmentId)
                   command == handled[n].delivered.command
               IN
               /\ stored.orderId = command.orderId
               /\ stored.carrier = (IF command.carrier = "" THEN "ACME_SHIP" ELSE command.carrier)
               /\ JStr(stored.trackingNumber) = sends[handled[n].send].value.v.trackingId)
  /\ [](\A n \in DOMAIN responses :
          (responses[n].route = "create" /\ responses[n].status = 201)
            => \A f \in CreationFields :
                 MapGet(shipments, responses[n].body.shipmentId)[f] = responses[n].body[f])

\* two commands were accepted and then (the cancel drew the seventh UUID) the
\* shipment of the first was cancelled: it keeps the command's order and
\* carrier and a tracking number that is not the one of its id, and the second
\* shipment is as it was created
C20_Witness ==
  /\ Len(handled) = 2
  /\ handled[1].outcome = "ACCEPTED"
  /\ handled[2].outcome = "ACCEPTED"
  /\ Len(responses) = 1
  /\ responses[1].route = "cancel" /\ responses[1].status = 200
  /\ responses[1].body.shipmentId = handled[1].shipmentId
  /\ attempts[1].event.notificationId = MkUuid(uuidSeed + 7)
  /\ shipments[1].status = "CANCELLED"
  /\ shipments[1].orderId = OrderO1
  /\ shipments[1].carrier = "UPS"
  /\ shipments[1].trackingNumber # makeTrackingNumber(shipments[1].shipmentId)
  /\ shipments[2].status = "CREATED"
  /\ "cancelledAt" \notin DOMAIN shipments[2]

\* C21: every stored shipment has a cancelledAt exactly when its status is
\* CANCELLED; so the records POST /shipments and the consumer add, which are
\* CREATED, have none until a cancel overwrites them.
C21_CancelledAtIffCancelled ==
  \A i \in DOMAIN shipments :
    /\ "cancelledAt" \in DOMAIN shipments[i] <=> shipments[i].status = "CANCELLED"
    /\ (CreatedByRoute(shipments[i].shipmentId) \/ CreatedByCommand(shipments[i].shipmentId))
         => \/ shipments[i].status = "CREATED"
            \/ \E n \in DOMAIN responses :
                 /\ responses[n].route = "cancel"
                 /\ responses[n].status = 200
                 /\ responses[n].body.shipmentId = shipments[i].shipmentId

\* the shipment of an accepted command was cancelled and carries the stamp,
\* and the shipment of a second command, not cancelled, carries none
C21_Witness ==
  /\ Len(shipments) = 2
  /\ CreatedByCommand(shipments[1].shipmentId)
  /\ shipments[1].status = "CANCELLED"
  /\ "cancelledAt" \in DOMAIN shipments[1]
  /\ CreatedByCommand(shipments[2].shipmentId)
  /\ shipments[2].status = "CREATED"
  /\ "cancelledAt" \notin DOMAIN shipments[2]

\* C22: the shipment of an accepted command has the command's carrier when
\* that is not the empty string and ACME_SHIP when it is; and a well-formed
\* command with an empty carrier is never dropped, and is accepted whenever its
\* requestedAt parses.
C22_CarrierDefault ==
  \A n \in DOMAIN handled :
    handled[n].delivered.class = "command"
      => LET command == handled[n].delivered.command IN
         /\ handled[n].outcome = "ACCEPTED"
              => MapGet(shipments, handled[n].shipmentId).carrier
                   = (IF command.carrier # "" THEN command.carrier ELSE "ACME_SHIP")
         /\ command.carrier = ""
              => /\ handled[n].outcome # "dropped"
                 /\ command.requestedAt = ValidRequestedAt
                      => handled[n].outcome = "ACCEPTED"

\* a command with the carrier UPS and a command with an empty carrier were
\* both accepted: their shipments have UPS and ACME_SHIP
C22_Witness ==
  \E n, m \in DOMAIN handled :
    /\ handled[n].outcome = "ACCEPTED"
    /\ handled[n].delivered.command.carrier = "UPS"
    /\ MapGet(shipments, handled[n].shipmentId).carrier = "UPS"
    /\ handled[m].outcome = "ACCEPTED"
    /\ handled[m].delivered.command.carrier = ""
    /\ MapGet(shipments, handled[m].shipmentId).carrier = "ACME_SHIP"

\* the shipmentIds of the store, in its order
IdsOf(map) == [i \in DOMAIN map |-> map[i].shipmentId]

\* the views of the records of the order, or of all records, in the store's order
ViewsOf(map, query) ==
  LET kept == IF query.t = "string" /\ query.v # <<>>
                THEN SelectSeq(map, LAMBDA r : r.orderId = query.v)
                ELSE map
  IN [i \in DOMAIN kept |-> toShipmentView(kept[i])]

\* C23: GET /shipments on a store that is not empty answers with the views of
\* exactly the stored records, those of the filter's order only when a
\* non-empty filter is given, in the order of the store; and the store keeps
\* its ids in the order they were first inserted: every step leaves each id at
\* its place, a cancel of a stored id included, and adds new ids at the end.
C23_ListInInsertionOrder ==
  [][/\ \A query \in Queries :
          (List(query) /\ shipments # <<>>)
            => (Answer.status = 200 /\ Answer.body = ViewsOf(shipments, query))
     /\ Len(shipments') >= Len(shipments)
     /\ SubSeq(IdsOf(shipments'), 1, Len(shipments)) = IdsOf(shipments)]_vars

\* two shipments were created, the first was cancelled, and the list that
\* followed shows both, the cancelled one still first
C23_Witness ==
  /\ Len(responses) = 4
  /\ responses[1].route = "create" /\ responses[1].status = 201
  /\ responses[2].route = "create" /\ responses[2].status = 201
  /\ responses[3].route = "cancel" /\ responses[3].status = 200
  /\ responses[3].body.shipmentId = responses[1].body.shipmentId
  /\ responses[4].route = "list"
  /\ Len(responses[4].body) = 2
  /\ responses[4].body[1].shipmentId = responses[1].body.shipmentId
  /\ responses[4].body[1].status = "CANCELLED"
  /\ responses[4].body[2].shipmentId = responses[2].body.shipmentId
  /\ responses[4].body[2].status = "CREATED"

\* this step is a step of the consumer: its startup, an invocation of its
\* handler, or the settling of a reply send
ConsumerStep == startPc' # startPc \/ handled' # handled \/ sends' # sends

\* this step answers a POST /shipments with 201 or a cancel with 200
WriteAnswered ==
  /\ Answered
  /\ \/ Answer.route = "create" /\ Answer.status = 201
     \/ Answer.route = "cancel" /\ Answer.status = 200

\* C24: a step that answers a POST /shipments with 201 or a cancel with 200
\* calls publishAnalyticsNotification exactly once, for the shipment of the
\* answer and with the title of the route; a request that is refused calls it
\* not at all; and no step of the consumer, whether its handler accepts,
\* rejects or drops the message, calls it.
C24_NotifierOnlyFromRoutes ==
  [][/\ WriteAnswered
          => /\ Len(attempts') = Len(attempts) + 1
             /\ SubSeq(attempts', 1, Len(attempts)) = attempts
             /\ attempts'[Len(attempts')].event.requestId = Answer.body.shipmentId
             /\ attempts'[Len(attempts')].event.title
                  = (IF Answer.route = "create" THEN "ShipmentCreated"
                     ELSE "ShipmentCancelled")
     /\ (Answered /\ ~WriteAnswered) => attempts' = attempts
     /\ ConsumerStep => attempts' = attempts]_vars

\* the consumer accepted a command and rejected another, one POST /shipments
\* was answered 201, and the one publish attempt there is belongs to it
C24_Witness ==
  /\ Len(handled) = 2
  /\ \E n \in DOMAIN handled : handled[n].outcome = "ACCEPTED"
  /\ \E n \in DOMAIN handled : handled[n].outcome = "REJECTED"
  /\ Len(responses) = 1
  /\ responses[1].route = "create"
  /\ responses[1].status = 201
  /\ Len(attempts) = 1
  /\ attempts[1].event.requestId = responses[1].body.shipmentId
  /\ attempts[1].event.title = "ShipmentCreated"

\* C25: the shipment of an accepted command is in the store from the step
\* that hands its reply to the producer on, while the send is pending and
\* after it has failed as well as after it was acknowledged; and two accepted
\* deliveries, of the same command or not, have stored two shipments with
\* different shipmentIds and different trackingNumbers.
C25_StoredBeforeSendNoRollback ==
  /\ \A n \in DOMAIN handled :
       handled[n].outcome = "ACCEPTED"
         => /\ sends[handled[n].send].state \in {"pending", "failed", "acked"}
            /\ Cardinality(EntriesOf(shipments, handled[n].shipmentId)) = 1
  /\ \A n, m \in DOMAIN handled :
       (n # m /\ handled[n].outcome = "ACCEPTED" /\ handled[m].outcome = "ACCEPTED")
         => /\ handled[n].shipmentId # handled[m].shipmentId
            /\ MapGet(shipments, handled[n].shipmentId).trackingNumber
                 # MapGet(shipments, handled[m].shipmentId).trackingNumber

\* the reply send of command m1 failed and the handler rejected; m1 was
\* delivered again and accepted again: the store holds the shipment of the
\* failed delivery and a second one with another id and tracking number
C25_Witness ==
  /\ Len(handled) = 2
  /\ handled[1].outcome = "ACCEPTED"
  /\ handled[2].outcome = "ACCEPTED"
  /\ handled[1].delivered.command.messageId = "m1"
  /\ handled[2].delivered.command.messageId = "m1"
  /\ sends[handled[1].send].state = "failed"
  /\ \E r \in DOMAIN raised : raised[r].delivery = 1
  /\ Len(shipments) = 2
  /\ shipments[1].shipmentId = handled[1].shipmentId
  /\ shipments[2].shipmentId = handled[2].shipmentId
  /\ shipments[1].shipmentId # shipments[2].shipmentId
  /\ shipments[1].trackingNumber # shipments[2].trackingNumber

(***************************************************************************)
(* Properties of the shutdown.                                             *)
(***************************************************************************)
\* this step is the handler of a signal
SignalStep == lifecycle'.signals # lifecycle.signals

\* C26: the handler of a shutdown signal that finds the consumer connected
\* to the broker calls disconnect() on both clients; the process exits
\* only on a signal, and after disconnects only when both have settled; and
\* once a signal has been received the process eventually exits, also when a
\* disconnect rejects.
C26_ShutdownDisconnectsThenExits ==
  /\ [][(SignalStep /\ lifecycle.consumer = "connected")
          => /\ Len(lifecycle'.calls) = Len(lifecycle.calls) + 1
             /\ lifecycle'.calls[Len(lifecycle'.calls)]
                  = [consumer |-> "pending", producer |-> "pending"]
             /\ ~lifecycle'.exited]_vars
  /\ [](lifecycle.exited
          => /\ lifecycle.signals # {}
             /\ lifecycle.calls # <<>>
                  => \E k \in DOMAIN lifecycle.calls :
                       \A client \in Clients : lifecycle.calls[k][client] # "pending")
  /\ (lifecycle.signals # {}) ~> lifecycle.exited

====
